---- MODULE Spec2Model ----
(***************************************************************************)
(* A model of timergen (src/timergen.py): the time-format mini-language    *)
(* (format_time), the decomposition of milliseconds into units, the frame  *)
(* schedule (millis_counts, generate_frames) and the part of main that     *)
(* drives it.                                                              *)
(*                                                                         *)
(* Strings are sequences of one-character strings.  A duration is a float  *)
(* (IEEE 754 binary64), kept as its exact binary expansion; the float      *)
(* expressions of generate_frames round as the hardware does.              *)
(***************************************************************************)
EXTENDS Integers, Sequences, FiniteSets, TLC

VARIABLES
    pc,           \* position of main / generate_frames
    duration,     \* config.duration, a float
    frame_rate,   \* config.frame_rate
    time_format,  \* config.time_format
    isec,         \* loop variable i of the full-second loop
    mpos,         \* number of values the millis_counts generator has yielded
    macc,         \* running total of its accumulate
    times,        \* the list "times" of labels
    elapsed,      \* the milliseconds handed to format_time, in call order
    saved,        \* number of frame images created and saved
    raised,       \* message of the exception that ended the run, or "none"
    fpc,          \* position of a single call of a pure function
    millis,       \* argument millis of that call
    fmt,          \* argument fmt of that call
    result        \* what the call returned or raised

vars == <<pc, duration, frame_rate, time_format, isec, mpos, macc, times, elapsed,
          saved, raised, fpc, millis, fmt, result>>

pipeVars == <<pc, duration, frame_rate, time_format, isec, mpos, macc, times,
              elapsed, saved, raised>>

callVars == <<fpc, millis, fmt, result>>

----------------------------------------------------------------------------
(* Bounds of the model *)

MaxPatLen == 4        \* generic patterns: every string up to this length
MaxWidthDigit == 3    \* digits 0..MaxWidthDigit occur in written widths
MaxDurE == 20         \* durations up to MaxDurE/8 seconds
MinDurE == 20         \* durations down to -MinDurE/8 seconds
MaxTenths == 27       \* durations up to MaxTenths/10 seconds
MinTenths == 13       \* durations down to -MinTenths/10 seconds
MaxFps == 10          \* frame rates up to MaxFps ...
MinFps == 2           \* ... and down to -MinFps
MaxBigFps == 1        \* frame rates 1000 .. 1000+MaxBigFps
MaxBigDurE == 9       \* durations used with those frame rates
MaxUnitDelta == 2     \* get_units: distance to a unit boundary
MaxUnitHours == 3     \* get_units: hours

----------------------------------------------------------------------------
(* Python helpers *)

Units == {"H", "M", "S", "m"}

DigitChars == <<"0", "1", "2", "3", "4", "5", "6", "7", "8", "9">>

\* The decimal digits of Unicode 14 (category Nd), one row per script, each
\* row in the order 0..9.  A character outside ASCII is written as the atom
\* "U" followed by its code point in hexadecimal.
DigitRows ==
    <<
       <<"0", "1", "2", "3", "4", "5", "6", "7", "8", "9">>,
       <<"U0660", "U0661", "U0662", "U0663", "U0664", "U0665", "U0666", "U0667", "U0668", "U0669">>,
       <<"U06F0", "U06F1", "U06F2", "U06F3", "U06F4", "U06F5", "U06F6", "U06F7", "U06F8", "U06F9">>,
       <<"U07C0", "U07C1", "U07C2", "U07C3", "U07C4", "U07C5", "U07C6", "U07C7", "U07C8", "U07C9">>,
       <<"U0966", "U0967", "U0968", "U0969", "U096A", "U096B", "U096C", "U096D", "U096E", "U096F">>,
       <<"U09E6", "U09E7", "U09E8", "U09E9", "U09EA", "U09EB", "U09EC", "U09ED", "U09EE", "U09EF">>,
       <<"U0A66", "U0A67", "U0A68", "U0A69", "U0A6A", "U0A6B", "U0A6C", "U0A6D", "U0A6E", "U0A6F">>,
       <<"U0AE6", "U0AE7", "U0AE8", "U0AE9", "U0AEA", "U0AEB", "U0AEC", "U0AED", "U0AEE", "U0AEF">>,
       <<"U0B66", "U0B67", "U0B68", "U0B69", "U0B6A", "U0B6B", "U0B6C", "U0B6D", "U0B6E", "U0B6F">>,
       <<"U0BE6", "U0BE7", "U0BE8", "U0BE9", "U0BEA", "U0BEB", "U0BEC", "U0BED", "U0BEE", "U0BEF">>,
       <<"U0C66", "U0C67", "U0C68", "U0C69", "U0C6A", "U0C6B", "U0C6C", "U0C6D", "U0C6E", "U0C6F">>,
       <<"U0CE6", "U0CE7", "U0CE8", "U0CE9", "U0CEA", "U0CEB", "U0CEC", "U0CED", "U0CEE", "U0CEF">>,
       <<"U0D66", "U0D67", "U0D68", "U0D69", "U0D6A", "U0D6B", "U0D6C", "U0D6D", "U0D6E", "U0D6F">>,
       <<"U0DE6", "U0DE7", "U0DE8", "U0DE9", "U0DEA", "U0DEB", "U0DEC", "U0DED", "U0DEE", "U0DEF">>,
       <<"U0E50", "U0E51", "U0E52", "U0E53", "U0E54", "U0E55", "U0E56", "U0E57", "U0E58", "U0E59">>,
       <<"U0ED0", "U0ED1", "U0ED2", "U0ED3", "U0ED4", "U0ED5", "U0ED6", "U0ED7", "U0ED8", "U0ED9">>,
       <<"U0F20", "U0F21", "U0F22", "U0F23", "U0F24", "U0F25", "U0F26", "U0F27", "U0F28", "U0F29">>,
       <<"U1040", "U1041", "U1042", "U1043", "U1044", "U1045", "U1046", "U1047", "U1048", "U1049">>,
       <<"U1090", "U1091", "U1092", "U1093", "U1094", "U1095", "U1096", "U1097", "U1098", "U1099">>,
       <<"U17E0", "U17E1", "U17E2", "U17E3", "U17E4", "U17E5", "U17E6", "U17E7", "U17E8", "U17E9">>,
       <<"U1810", "U1811", "U1812", "U1813", "U1814", "U1815", "U1816", "U1817", "U1818", "U1819">>,
       <<"U1946", "U1947", "U1948", "U1949", "U194A", "U194B", "U194C", "U194D", "U194E", "U194F">>,
       <<"U19D0", "U19D1", "U19D2", "U19D3", "U19D4", "U19D5", "U19D6", "U19D7", "U19D8", "U19D9">>,
       <<"U1A80", "U1A81", "U1A82", "U1A83", "U1A84", "U1A85", "U1A86", "U1A87", "U1A88", "U1A89">>,
       <<"U1A90", "U1A91", "U1A92", "U1A93", "U1A94", "U1A95", "U1A96", "U1A97", "U1A98", "U1A99">>,
       <<"U1B50", "U1B51", "U1B52", "U1B53", "U1B54", "U1B55", "U1B56", "U1B57", "U1B58", "U1B59">>,
       <<"U1BB0", "U1BB1", "U1BB2", "U1BB3", "U1BB4", "U1BB5", "U1BB6", "U1BB7", "U1BB8", "U1BB9">>,
       <<"U1C40", "U1C41", "U1C42", "U1C43", "U1C44", "U1C45", "U1C46", "U1C47", "U1C48", "U1C49">>,
       <<"U1C50", "U1C51", "U1C52", "U1C53", "U1C54", "U1C55", "U1C56", "U1C57", "U1C58", "U1C59">>,
       <<"UA620", "UA621", "UA622", "UA623", "UA624", "UA625", "UA626", "UA627", "UA628", "UA629">>,
       <<"UA8D0", "UA8D1", "UA8D2", "UA8D3", "UA8D4", "UA8D5", "UA8D6", "UA8D7", "UA8D8", "UA8D9">>,
       <<"UA900", "UA901", "UA902", "UA903", "UA904", "UA905", "UA906", "UA907", "UA908", "UA909">>,
       <<"UA9D0", "UA9D1", "UA9D2", "UA9D3", "UA9D4", "UA9D5", "UA9D6", "UA9D7", "UA9D8", "UA9D9">>,
       <<"UA9F0", "UA9F1", "UA9F2", "UA9F3", "UA9F4", "UA9F5", "UA9F6", "UA9F7", "UA9F8", "UA9F9">>,
       <<"UAA50", "UAA51", "UAA52", "UAA53", "UAA54", "UAA55", "UAA56", "UAA57", "UAA58", "UAA59">>,
       <<"UABF0", "UABF1", "UABF2", "UABF3", "UABF4", "UABF5", "UABF6", "UABF7", "UABF8", "UABF9">>,
       <<"UFF10", "UFF11", "UFF12", "UFF13", "UFF14", "UFF15", "UFF16", "UFF17", "UFF18", "UFF19">>,
       <<"U104A0", "U104A1", "U104A2", "U104A3", "U104A4", "U104A5", "U104A6", "U104A7", "U104A8", "U104A9">>,
       <<"U10D30", "U10D31", "U10D32", "U10D33", "U10D34", "U10D35", "U10D36", "U10D37", "U10D38", "U10D39">>,
       <<"U11066", "U11067", "U11068", "U11069", "U1106A", "U1106B", "U1106C", "U1106D", "U1106E", "U1106F">>,
       <<"U110F0", "U110F1", "U110F2", "U110F3", "U110F4", "U110F5", "U110F6", "U110F7", "U110F8", "U110F9">>,
       <<"U11136", "U11137", "U11138", "U11139", "U1113A", "U1113B", "U1113C", "U1113D", "U1113E", "U1113F">>,
       <<"U111D0", "U111D1", "U111D2", "U111D3", "U111D4", "U111D5", "U111D6", "U111D7", "U111D8", "U111D9">>,
       <<"U112F0", "U112F1", "U112F2", "U112F3", "U112F4", "U112F5", "U112F6", "U112F7", "U112F8", "U112F9">>,
       <<"U11450", "U11451", "U11452", "U11453", "U11454", "U11455", "U11456", "U11457", "U11458", "U11459">>,
       <<"U114D0", "U114D1", "U114D2", "U114D3", "U114D4", "U114D5", "U114D6", "U114D7", "U114D8", "U114D9">>,
       <<"U11650", "U11651", "U11652", "U11653", "U11654", "U11655", "U11656", "U11657", "U11658", "U11659">>,
       <<"U116C0", "U116C1", "U116C2", "U116C3", "U116C4", "U116C5", "U116C6", "U116C7", "U116C8", "U116C9">>,
       <<"U11730", "U11731", "U11732", "U11733", "U11734", "U11735", "U11736", "U11737", "U11738", "U11739">>,
       <<"U118E0", "U118E1", "U118E2", "U118E3", "U118E4", "U118E5", "U118E6", "U118E7", "U118E8", "U118E9">>,
       <<"U11950", "U11951", "U11952", "U11953", "U11954", "U11955", "U11956", "U11957", "U11958", "U11959">>,
       <<"U11C50", "U11C51", "U11C52", "U11C53", "U11C54", "U11C55", "U11C56", "U11C57", "U11C58", "U11C59">>,
       <<"U11D50", "U11D51", "U11D52", "U11D53", "U11D54", "U11D55", "U11D56", "U11D57", "U11D58", "U11D59">>,
       <<"U11DA0", "U11DA1", "U11DA2", "U11DA3", "U11DA4", "U11DA5", "U11DA6", "U11DA7", "U11DA8", "U11DA9">>,
       <<"U16A60", "U16A61", "U16A62", "U16A63", "U16A64", "U16A65", "U16A66", "U16A67", "U16A68", "U16A69">>,
       <<"U16AC0", "U16AC1", "U16AC2", "U16AC3", "U16AC4", "U16AC5", "U16AC6", "U16AC7", "U16AC8", "U16AC9">>,
       <<"U16B50", "U16B51", "U16B52", "U16B53", "U16B54", "U16B55", "U16B56", "U16B57", "U16B58", "U16B59">>,
       <<"U1D7CE", "U1D7CF", "U1D7D0", "U1D7D1", "U1D7D2", "U1D7D3", "U1D7D4", "U1D7D5", "U1D7D6", "U1D7D7">>,
       <<"U1D7D8", "U1D7D9", "U1D7DA", "U1D7DB", "U1D7DC", "U1D7DD", "U1D7DE", "U1D7DF", "U1D7E0", "U1D7E1">>,
       <<"U1D7E2", "U1D7E3", "U1D7E4", "U1D7E5", "U1D7E6", "U1D7E7", "U1D7E8", "U1D7E9", "U1D7EA", "U1D7EB">>,
       <<"U1D7EC", "U1D7ED", "U1D7EE", "U1D7EF", "U1D7F0", "U1D7F1", "U1D7F2", "U1D7F3", "U1D7F4", "U1D7F5">>,
       <<"U1D7F6", "U1D7F7", "U1D7F8", "U1D7F9", "U1D7FA", "U1D7FB", "U1D7FC", "U1D7FD", "U1D7FE", "U1D7FF">>,
       <<"U1E140", "U1E141", "U1E142", "U1E143", "U1E144", "U1E145", "U1E146", "U1E147", "U1E148", "U1E149">>,
       <<"U1E2F0", "U1E2F1", "U1E2F2", "U1E2F3", "U1E2F4", "U1E2F5", "U1E2F6", "U1E2F7", "U1E2F8", "U1E2F9">>,
       <<"U1E950", "U1E951", "U1E952", "U1E953", "U1E954", "U1E955", "U1E956", "U1E957", "U1E958", "U1E959">>,
       <<"U1FBF0", "U1FBF1", "U1FBF2", "U1FBF3", "U1FBF4", "U1FBF5", "U1FBF6", "U1FBF7", "U1FBF8", "U1FBF9">>
    >>

DecimalDigits == { DigitRows[r][d] : r \in 1..Len(DigitRows), d \in 1..10 }

\* \d of a str pattern: any Unicode decimal digit
IsDigit(c) == c \in DecimalDigits

\* int() of one decimal digit
DigitVal(c) ==
    (CHOOSE d \in 1..10 : \E r \in 1..Len(DigitRows) : DigitRows[r][d] = c) - 1

\* '0' <= c <= '9', the digits of the % operator's width and precision
IsAsciiDigit(c) == \E d \in 1..10 : DigitChars[d] = c

Max(a, b) == IF a >= b THEN a ELSE b

Min(a, b) == IF a <= b THEN a ELSE b

Abs(a) == IF a >= 0 THEN a ELSE -a

\* str(n) for a non-negative integer
RECURSIVE StrNat(_)
StrNat(n) == IF n < 10 THEN <<DigitChars[n + 1]>>
             ELSE StrNat(n \div 10) \o <<DigitChars[(n % 10) + 1]>>

\* str(n)
Str(n) == IF n >= 0 THEN StrNat(n) ELSE <<"-">> \o StrNat(-n)

\* the end of the run of characters of cs that starts at position q of s
\* (q - 1 when there is none)
RunEnd(s, q, cs) ==
    LET stop == { k \in q..Len(s) : s[k] \notin cs }
    IN  IF stop = {} THEN Max(Len(s), q - 1)
        ELSE (CHOOSE k \in stop : \A j \in stop : k <= j) - 1

\* the position of the first % of s at or after position p (Len(s) + 1 when
\* there is none)
NextPercent(s, p) ==
    LET at == { k \in p..Len(s) : s[k] = "%" }
    IN  IF at = {} THEN Max(Len(s) + 1, p)
        ELSE CHOOSE k \in at : \A j \in at : k <= j

\* s without its leading characters that are in z
StripLeading(s, z) ==
    LET keep == { k \in 1..Len(s) : s[k] \notin z }
    IN  IF keep = {} THEN <<>>
        ELSE SubSeq(s, CHOOSE k \in keep : \A j \in keep : k <= j, Len(s))

\* the digits of value 0
ZeroDigits == { DigitRows[r][1] : r \in 1..Len(DigitRows) }

RECURSIVE IntOfSignificant(_)
IntOfSignificant(s) == IF s = <<>> THEN 0
                       ELSE 10 * IntOfSignificant(SubSeq(s, 1, Len(s) - 1))
                            + DigitVal(s[Len(s)])

\* int(s) for a string of decimal digits
IntOfDigits(s) == IntOfSignificant(StripLeading(s, ZeroDigits))

\* int(s) for s matching -?\d+
PyInt(s) == IF s[1] = "-" THEN -IntOfDigits(Tail(s)) ELSE IntOfDigits(s)

Zeros(n) == [k \in 1..n |-> "0"]

\* s.rjust(w, "0")
Rjust(s, w) == IF Len(s) >= w THEN s ELSE Zeros(w - Len(s)) \o s

\* s[-n:] for n > 0
LastN(s, n) == SubSeq(s, Max(1, Len(s) - n + 1), Len(s))

\* s[:n] for n > 0
FirstN(s, n) == SubSeq(s, 1, Min(n, Len(s)))

\* divmod(a, b) for b > 0 (floor division, as in Python)
DivMod(a, b) == <<a \div b, a % b>>

----------------------------------------------------------------------------
(* get_units_from_milliseconds *)

get_units_from_milliseconds_nomod(milliseconds) ==
    LET sm == DivMod(milliseconds, 1000)
        ms == DivMod(sm[1], 60)
        hm == DivMod(ms[1], 60)
    IN  [H |-> hm[1], M |-> ms[1], S |-> ms[2], m |-> sm[2]]

get_units_from_milliseconds(milliseconds) ==
    LET sm == DivMod(milliseconds, 1000)
        ms == DivMod(sm[1], 60)
        hm == DivMod(ms[1], 60)
    IN  [H |-> hm[1], M |-> hm[2], S |-> ms[2], m |-> sm[2]]

----------------------------------------------------------------------------
(* format_time *)

default_digs == [u \in Units |-> IF u = "m" THEN 3 ELSE -2]

Ok(s) == [err |-> "none", out |-> s]

Err(e) == [err |-> e, out |-> <<>>]

\* The end of the run of decimal digits of f that starts at position q
\* (q - 1 when there is none).
DigitsEnd(f, q) == RunEnd(f, q, DecimalDigits)

\* rx.match at position p of f, where f[p] = "%":
\*   % ( (-?\d+)? [HMSm] | % )
MatchAt(f, p) ==
    LET q  == p + 1
        ds == IF q <= Len(f) /\ f[q] = "-" THEN q + 1 ELSE q
        de == DigitsEnd(f, ds)
        u  == IF de >= ds THEN de + 1 ELSE q
    IN  IF u <= Len(f) /\ f[u] \in Units
        THEN [kind |-> "directive", last |-> u,
              digits |-> IF de >= ds THEN SubSeq(f, q, de) ELSE <<>>,
              unit |-> f[u]]
        ELSE IF q <= Len(f) /\ f[q] = "%"
        THEN [kind |-> "escape", last |-> q, digits |-> <<>>, unit |-> "%"]
        ELSE [kind |-> "none", last |-> p, digits |-> <<>>, unit |-> "%"]

\* dig of replacer: the stored width of a directive
StoredWidth(digits, u) ==
    IF digits = <<>> THEN default_digs[u] ELSE -PyInt(digits)

\* the width the value is right-justified to
PadWidth(dig, u) == Max(Abs(dig), default_digs[u])

\* the test "dig == 0" of replacer
ZeroWidth(dig) == dig = 0

EscapeText_single == <<"%">>

\* what replacer returns for the escape %%
EscapeText == <<"%", "%">>

\* the decimal digits of s as ASCII digits
AsciiDigits(s) == [k \in 1..Len(s) |-> DigitChars[DigitVal(s[k]) + 1]]

\* a < b for two strings of ASCII digits of the same length
RECURSIVE DigitsLess(_, _)
DigitsLess(a, b) ==
    IF a = <<>> THEN FALSE
    ELSE IF a[1] # b[1] THEN DigitVal(a[1]) < DigitVal(b[1])
    ELSE DigitsLess(Tail(a), Tail(b))

\* the number written by the digits ds is greater than the one written by mx
Exceeds(ds, mx) ==
    LET n == StripLeading(AsciiDigits(ds), {"0"})
    IN  Len(n) > Len(mx) \/ (Len(n) = Len(mx) /\ DigitsLess(mx, n))

\* PY_SSIZE_T_MAX (2^63 - 1) and INT_MAX (2^31 - 1), as digits
SsizeMaxDigits == <<"9", "2", "2", "3", "3", "7", "2", "0", "3", "6", "8",
                    "5", "4", "7", "7", "5", "8", "0", "7">>

IntMaxDigits == <<"2", "1", "4", "7", "4", "8", "3", "6", "4", "7">>

\* 2^47 - 1, the size of the user address space, as digits
AddressMaxDigits == <<"1", "4", "0", "7", "3", "7", "4", "8", "8", "3", "5",
                      "5", "3", "2", "7">>

\* The longest string the machine can allocate when rjust asks for it: that
\* depends on the machine and on the moment.  It is taken to be at least
\* 2^31 - 1 characters and it is at most 2^47 - 1.
MemoryLimits == {IntMaxDigits, AddressMaxDigits}

\* sys.get_int_max_str_digits(), the default of CPython
IntMaxStrDigits == 4300

\* the written digits without the sign
Unsigned(digits) == StripLeading(digits, {"-"})

\* int(dig) refuses a string of more than IntMaxStrDigits digits
IntRefuses(digits) == Len(Unsigned(digits)) > IntMaxStrDigits

IntRefusal(digits) ==
    "Exceeds the limit (" \o ToString(IntMaxStrDigits)
    \o " digits) for integer string conversion: value has "
    \o ToString(Len(Unsigned(digits)))
    \o " digits; use sys.set_int_max_str_digits() to increase the limit"

\* abs(dig) does not fit a C ssize_t: rjust raises OverflowError
WidthOverflows(digits) ==
    digits # <<>> /\ Exceeds(Unsigned(digits), SsizeMaxDigits)

\* a string of abs(dig) characters cannot be allocated: MemoryError, an
\* exception without a message, written here by its name
AllocFails(digits, mem) ==
    digits # <<>> /\ Exceeds(Unsigned(digits), mem)

\* replacer, for a directive, on a machine that can allocate mem characters
Directive(digits, u, units, mem) ==
    IF digits # <<>> /\ IntRefuses(digits) THEN Err(IntRefusal(digits))
    ELSE IF WidthOverflows(digits)
    THEN Err("Python int too large to convert to C ssize_t")
    ELSE IF AllocFails(digits, mem) THEN Err("MemoryError")
    ELSE LET dig == StoredWidth(digits, u)
             pad == Rjust(Str(units[u]), PadWidth(dig, u))
         IN  IF ZeroWidth(dig) THEN Err("width cannot be 0")
             ELSE IF dig < 0 THEN Ok(LastN(pad, -dig))
             ELSE Ok(FirstN(pad, dig))

\* replacer
replacer(ma, units, mem) ==
    IF ma.kind = "escape" THEN Ok(EscapeText)
    ELSE Directive(ma.digits, ma.unit, units, mem)

\* rx.sub(replacer, f), from position p on: the text between two matches
\* is copied
RECURSIVE RxSub(_, _, _, _)
RxSub(f, p, units, mem) ==
    IF p > Len(f) THEN Ok(<<>>)
    ELSE IF f[p] # "%"
    THEN LET q    == NextPercent(f, p)
             rest == RxSub(f, q, units, mem)
         IN  IF rest.err = "none" THEN Ok(SubSeq(f, p, q - 1) \o rest.out)
             ELSE rest
    ELSE LET ma == MatchAt(f, p)
         IN  IF ma.kind = "none"
             THEN LET rest == RxSub(f, p + 1, units, mem)
                  IN  IF rest.err = "none" THEN Ok(<<f[p]>> \o rest.out)
                      ELSE rest
             ELSE LET r == replacer(ma, units, mem)
                  IN  IF r.err # "none" THEN r
                      ELSE LET rest == RxSub(f, ma.last + 1, units, mem)
                           IN  IF rest.err = "none" THEN Ok(r.out \o rest.out)
                               ELSE rest

FormatFlags == {"-", "+", " ", "#", "0"}

FlagsEnd(s, q) == RunEnd(s, q, FormatFlags) + 1

\* The end of the run of ASCII digits of s that starts at position q
\* (q - 1 when there is none).
AsciiDigitsEnd(s, q) ==
    RunEnd(s, q, { c \in DecimalDigits : IsAsciiDigit(c) })

\* One conversion specification of "s % ()", s[p] = "%", s[p+1] # "%": with no
\* argument to convert it always raises.  It is parsed left to right: mapping
\* key, flags, width, precision, length modifier, conversion; the first of
\* them that cannot be done gives the message.
ConversionError(s, p) ==
    LET q0 == p + 1
        a  == FlagsEnd(s, q0)
        we == AsciiDigitsEnd(s, a)
        b  == we + 1
        dot == b <= Len(s) /\ s[b] = "."
        c0 == b + 1
        pe == AsciiDigitsEnd(s, c0)
        c  == IF dot THEN pe + 1 ELSE b
        d  == IF c <= Len(s) /\ s[c] \in {"h", "l", "L"} THEN c + 1 ELSE c
    IN  IF q0 <= Len(s) /\ s[q0] = "("
        THEN "format requires a mapping"
        ELSE IF a <= Len(s) /\ s[a] = "*"
        THEN "not enough arguments for format string"
        ELSE IF Exceeds(SubSeq(s, a, we), SsizeMaxDigits)
        THEN "width too big"
        ELSE IF dot /\ c0 <= Len(s) /\ s[c0] = "*"
        THEN "not enough arguments for format string"
        ELSE IF dot /\ Exceeds(SubSeq(s, c0, pe), IntMaxDigits)
        THEN "precision too big"
        ELSE IF d > Len(s) THEN "incomplete format"
        ELSE "not enough arguments for format string"

\* s % (), from position p on
RECURSIVE PercentEmptyFrom(_, _)
PercentEmptyFrom(s, p) ==
    IF p > Len(s) THEN Ok(<<>>)
    ELSE IF s[p] # "%"
    THEN LET q    == NextPercent(s, p)
             rest == PercentEmptyFrom(s, q)
         IN  IF rest.err = "none" THEN Ok(SubSeq(s, p, q - 1) \o rest.out)
             ELSE rest
    ELSE IF p + 1 <= Len(s) /\ s[p + 1] = "%"
    THEN LET rest == PercentEmptyFrom(s, p + 2)
         IN  IF rest.err = "none" THEN Ok(<<"%">> \o rest.out) ELSE rest
    ELSE Err(ConversionError(s, p))

PercentEmpty_skipped(s) == Ok(s)

\* s % ()
PercentEmpty(s) == PercentEmptyFrom(s, 1)

format_time(ms, f, mem) ==
    LET sub == RxSub(f, 1, get_units_from_milliseconds(ms), mem)
    IN  IF sub.err # "none" THEN sub ELSE PercentEmpty(sub.out)

----------------------------------------------------------------------------
(* Python floats: IEEE 754 binary64, round to nearest, ties to even *)

\* A finite float is [neg, int, frac]: the sign, the integer part of the
\* magnitude and the bits of its fractional part after the binary point,
\* without trailing zeros.  Zero has no sign here: -0.0 behaves as 0.0 in
\* every expression of generate_frames.
FloatZero == [neg |-> FALSE, int |-> 0, frac |-> <<>>]

\* the number of significant bits of a float
Mantissa == 53

\* 2^0 .. 2^30
PowersOfTwo ==
    <<1, 2, 4, 8, 16, 32, 64, 128, 256, 512, 1024, 2048, 4096,
      8192, 16384, 32768, 65536, 131072, 262144, 524288, 1048576,
      2097152, 4194304, 8388608, 16777216, 33554432, 67108864,
      134217728, 268435456, 536870912, 1073741824>>

\* the bits of n >= 0, most significant first
Bits(n) ==
    LET w == Cardinality({ k \in 1..Len(PowersOfTwo) : PowersOfTwo[k] <= n })
    IN  [k \in 1..w |-> (n \div PowersOfTwo[w - k + 1]) % 2]

\* the number written by the bits b, by halves
RECURSIVE BitsVal(_)
BitsVal(b) ==
    IF b = <<>> THEN 0
    ELSE IF Len(b) = 1 THEN b[1]
    ELSE LET h == Len(b) \div 2
         IN  BitsVal(SubSeq(b, 1, h)) * PowersOfTwo[Len(b) - h + 1]
             + BitsVal(SubSeq(b, h + 1, Len(b)))

\* b without its trailing zeros
TrimZeros(b) ==
    LET ones == { k \in 1..Len(b) : b[k] = 1 }
    IN  IF ones = {} THEN <<>>
        ELSE SubSeq(b, 1, CHOOSE k \in ones : \A j \in ones : j <= k)

\* the bits of the number written by b, plus one
PlusOne(b) ==
    LET zeros == { k \in 1..Len(b) : b[k] = 0 }
    IN  IF zeros = {} THEN <<1>> \o [k \in 1..Len(b) |-> 0]
        ELSE LET z == CHOOSE k \in zeros : \A j \in zeros : j <= k
             IN  [k \in 1..Len(b) |->
                    IF k < z THEN b[k] ELSE IF k = z THEN 1 ELSE 0]

\* The float nearest to the exact magnitude int + 0.frac, with sign neg: the
\* first Mantissa bits from the leading one are kept and the rest rounds them
\* to nearest, a tie to the even neighbour.
RoundFloat(neg, int, frac) ==
    LET ib   == Bits(int)
        all  == ib \o frac
        ones == { k \in 1..Len(all) : all[k] = 1 }
    IN  IF ones = {} THEN FloatZero
        ELSE LET lead == CHOOSE k \in ones : \A j \in ones : k <= j
                 last == lead + Mantissa - 1
             IN  IF Len(all) <= last
                 THEN [neg |-> neg, int |-> int, frac |-> TrimZeros(frac)]
                 ELSE LET kept   == SubSeq(all, 1, last)
                          sticky == \E k \in (last + 2)..Len(all) : all[k] = 1
                          up     == /\ all[last + 1] = 1
                                    /\ (sticky \/ all[last] = 1)
                          r      == IF up THEN PlusOne(kept) ELSE kept
                          nk     == last - Len(ib)
                      IN  [neg  |-> neg,
                           int  |-> BitsVal(SubSeq(r, 1, Len(r) - nk)),
                           frac |-> TrimZeros(SubSeq(r, Len(r) - nk + 1, Len(r)))]

\* the number of bits of a decimal fraction that float() looks at one by one
ExpansionBits == 120

\* the first n >= 1 bits of r / den (r < den) and the remainder left after
\* them, by halves
RECURSIVE Expansion(_, _, _)
Expansion(r, den, n) ==
    IF n = 1 THEN [bits |-> <<(2 * r) \div den>>, rem |-> (2 * r) % den]
    ELSE LET a == Expansion(r, den, n \div 2)
             b == Expansion(a.rem, den, n - n \div 2)
         IN  [bits |-> a.bits \o b.bits, rem |-> b.rem]

\* float(s) for the decimal s = num / den of the command line (type=float
\* of argparse): the nearest float.  A 1 after the bits looked at stands for
\* the bits that remain.
float(s) ==
    LET e == Expansion(s.num % s.den, s.den, ExpansionBits)
    IN  RoundFloat(s.neg, s.num \div s.den,
                   IF e.rem = 0 THEN e.bits ELSE Append(e.bits, 1))

\* int(x): towards zero
FloatInt(x) == IF x.neg THEN -x.int ELSE x.int

\* 1 - 0.f, exactly, for bits f that end with a 1
Complement(f) == [k \in 1..Len(f) |-> IF k = Len(f) THEN 1 ELSE 1 - f[k]]

\* x % 1: fmod(x, 1.0) is exact; when it is negative 1.0 is added to it, and
\* that sum is rounded
FloatMod1(x) ==
    IF x.frac = <<>> THEN FloatZero
    ELSE IF ~x.neg THEN [neg |-> FALSE, int |-> 0, frac |-> x.frac]
    ELSE RoundFloat(FALSE, 0, Complement(x.frac))

\* Long fractions are multiplied by limbs of LimbBits bits.
LimbBits == 16

LimbBase == 65536

\* the limbs of the bits f, the last one filled up with zeros
Limbs(f) ==
    [n \in 1..((Len(f) + LimbBits - 1) \div LimbBits) |->
        BitsVal([k \in 1..LimbBits |->
                    IF (n - 1) * LimbBits + k <= Len(f)
                    THEN f[(n - 1) * LimbBits + k] ELSE 0])]

\* the LimbBits bits of the limb v
LimbBitsOf(v) == [k \in 1..(LimbBits - Len(Bits(v))) |-> 0] \o Bits(v)

\* the bits of the limbs ls
RECURSIVE BitsOfLimbs(_)
BitsOfLimbs(ls) == IF ls = <<>> THEN <<>>
                   ELSE LimbBitsOf(ls[1]) \o BitsOfLimbs(Tail(ls))

\* the limbs ls[1..k] times m plus the carry c: the carry out and the limbs
RECURSIVE LimbsTimes(_, _, _, _)
LimbsTimes(ls, m, k, c) ==
    IF k = 0 THEN [int |-> c, limbs |-> <<>>]
    ELSE LET v    == ls[k] * m + c
             rest == LimbsTimes(ls, m, k - 1, v \div LimbBase)
         IN  [int |-> rest.int, limbs |-> Append(rest.limbs, v % LimbBase)]

\* 0.f * m, exactly: its integer part and the bits of its fractional part;
\* the leading zeros of f only shift the product
FracTimes(f, m) ==
    LET z  == RunEnd(f, 1, {0})
        g  == Limbs(SubSeq(f, z + 1, Len(f)))
        t  == LimbsTimes(g, m, Len(g), 0)
        p  == [int |-> t.int, frac |-> BitsOfLimbs(t.limbs)]
        pb == Bits(p.int)
    IN  IF Len(pb) <= z
        THEN [int  |-> 0,
              frac |-> [k \in 1..(z - Len(pb)) |-> 0] \o pb \o p.frac]
        ELSE [int  |-> BitsVal(SubSeq(pb, 1, Len(pb) - z)),
              frac |-> SubSeq(pb, Len(pb) - z + 1, Len(pb)) \o p.frac]

\* x * m for a float x >= 0 and an integer m > 0: the exact product, rounded
FloatTimes(x, m) ==
    LET p == FracTimes(x.frac, m)
    IN  RoundFloat(FALSE, x.int * m + p.int, p.frac)

\* x + 1: the exact sum, rounded
FloatPlus1(x) ==
    IF ~x.neg THEN RoundFloat(FALSE, x.int + 1, x.frac)
    ELSE IF x.int >= 1 THEN RoundFloat(TRUE, x.int - 1, x.frac)
    ELSE IF x.frac = <<>> THEN RoundFloat(FALSE, 1, <<>>)
    ELSE RoundFloat(FALSE, 0, Complement(x.frac))

\* i < x for an integer i and a float x >= 0: Python compares them exactly
IntLessFloat(i, x) == i < x.int \/ (i = x.int /\ x.frac # <<>>)

----------------------------------------------------------------------------
(* millis_counts and the float expressions of generate_frames *)

\* the list [0] + [1000 // fps] * (fps - 1): its length (a list repeated a
\* negative number of times is empty) and its k-th element
MillisLen(fps) == 1 + Max(0, fps - 1)

MillisItem(fps, k) == IF k = 1 THEN 0 ELSE 1000 \div fps

\* int(config.duration)
IntDuration(d) == FloatInt(d)

\* config.duration % 1 * 1000
FracMillis(d) == FloatTimes(FloatMod1(d), 1000)

\* the test "i < config.duration % 1 * 1000"
TailIncluded(i, d) == IntLessFloat(i, FracMillis(d))

FullSecondTime_unscaled(i, j) == i + j

\* the argument "i * 1000 + j" of format_time in the full-second loop
FullSecondTime(i, j) == i * 1000 + j

\* the argument "int(config.duration + 1) * 1000 + i" in the tail loop
TailTime(d, i) == FloatInt(FloatPlus1(d)) * 1000 + i

----------------------------------------------------------------------------
(* Inputs *)

DefaultFormat == <<"%", "M", ":", "%", "S", ".", "%", "-", "2", "m">>

\* the formats the pipeline is run with
PipeFormats == { DefaultFormat,
                 <<"%", "S", ".", "%", "m">>,
                 <<"%", "%">>,
                 <<"%", "0", "H">>,
                 <<"%", "M", "%", "0", "0", "S">>,
                 <<"%", "2", "%">>,
                 <<"%", "X">> }

\* a decimal number n / den as it is written on the command line
Dec(n, den) == [neg |-> n < 0, num |-> Abs(n), den |-> den]

\* the durations the pipeline is run with, as written: eighths of a second
\* (exact in binary), tenths of a second (not exact), a millisecond and a
\* nanosecond
EighthDurations == { Dec(125 * k, 1000) : k \in (-MinDurE)..MaxDurE }

TenthDurations == { Dec(k, 10) : k \in (-MinTenths)..MaxTenths }

SmallDurations == { Dec(1, 1000), Dec(1, 1000000000), Dec(-1, 1000000000) }

\* two floats that no short decimal writes: 0.9999999999999999 = 1 - 2^-53
\* and -2^-70
SpecialDurations ==
    { [neg |-> FALSE, int |-> 0, frac |-> [k \in 1..Mantissa |-> 1]],
      [neg |-> TRUE, int |-> 0,
       frac |-> [k \in 1..70 |-> IF k = 70 THEN 1 ELSE 0]] }

PipeInputs ==
    { <<float(d), r, f>> : d \in EighthDurations, r \in (-MinFps)..MaxFps,
                           f \in PipeFormats }
    \cup { <<float(d), r, DefaultFormat>> :
              d \in TenthDurations \cup SmallDurations, r \in 1..MaxFps }
    \cup { <<x, r, DefaultFormat>> : x \in SpecialDurations, r \in 1..MaxFps }
    \cup { <<float(Dec(125 * k, 1000)), 1000 + r, DefaultFormat>> :
              k \in 0..MaxBigDurE, r \in 1..MaxBigFps }
    \cup { <<float(Dec(1, 1000)), 1000 + r, DefaultFormat>> :
              r \in 0..MaxBigFps }

----------------------------------------------------------------------------
(* main and generate_frames *)

IdleCall == fpc = "idle" /\ millis = 0 /\ fmt = <<>> /\ result = Ok(<<>>)

Init ==
    /\ \E inp \in PipeInputs :
          /\ duration = inp[1]
          /\ frame_rate = inp[2]
          /\ time_format = inp[3]
    /\ pc = "main"
    /\ isec = 0
    /\ mpos = 0
    /\ macc = 0
    /\ times = <<>>
    /\ elapsed = <<>>
    /\ saved = 0
    /\ raised = "none"
    /\ IdleCall

config == <<duration, frame_rate, time_format>>

Raise(e) ==
    /\ pc' = "raised"
    /\ raised' = e

\* times.append(format_time(t, config.time_format))
AppendLabel(t) ==
    \E mem \in MemoryLimits :
        LET r == format_time(t, time_format, mem)
        IN  IF r.err # "none"
            THEN /\ Raise(r.err)
                 /\ UNCHANGED <<times, elapsed>>
            ELSE /\ times' = Append(times, r.out)
                 /\ elapsed' = Append(elapsed, t)
                 /\ UNCHANGED <<pc, raised>>

\* main up to the call of generate_frames: without ffmpeg it returns 1
MainStart ==
    /\ pc = "main"
    /\ \E ffmpeg \in BOOLEAN :
          pc' = IF ffmpeg THEN "full" ELSE "exit1"
    /\ UNCHANGED <<config, isec, mpos, macc, times, elapsed, saved, raised>>
    /\ UNCHANGED callVars

\* the generator millis_counts is advanced for the first time: 1000 // 0
MillisZeroDivision ==
    /\ \/ pc = "full" /\ isec < IntDuration(duration)
       \/ pc = "tail"
    /\ frame_rate = 0
    /\ Raise("integer division or modulo by zero")
    /\ UNCHANGED <<config, isec, mpos, macc, times, elapsed, saved>>
    /\ UNCHANGED callVars

\* one pass of the inner loop of the full-second loop
FullLabel ==
    /\ pc = "full"
    /\ isec < IntDuration(duration)
    /\ frame_rate # 0
    /\ mpos < MillisLen(frame_rate)
    /\ LET j == macc + MillisItem(frame_rate, mpos + 1)
       IN  /\ mpos' = mpos + 1
           /\ macc' = j
           /\ AppendLabel(FullSecondTime(isec, j))
    /\ UNCHANGED <<config, isec, saved>>
    /\ UNCHANGED callVars

\* millis_counts is exhausted: the next second
FullNextSecond ==
    /\ pc = "full"
    /\ isec < IntDuration(duration)
    /\ frame_rate # 0
    /\ mpos >= MillisLen(frame_rate)
    /\ isec' = isec + 1
    /\ mpos' = 0
    /\ macc' = 0
    /\ UNCHANGED <<config, pc, times, elapsed, saved, raised>>
    /\ UNCHANGED callVars

\* range(int(config.duration)) is exhausted: on to the partial second
FullDone ==
    /\ pc = "full"
    /\ isec >= IntDuration(duration)
    /\ pc' = "tail"
    /\ mpos' = 0
    /\ macc' = 0
    /\ UNCHANGED <<config, isec, times, elapsed, saved, raised>>
    /\ UNCHANGED callVars

\* one pass of the loop over the last, partial second
TailStep ==
    /\ pc = "tail"
    /\ frame_rate # 0
    /\ mpos < MillisLen(frame_rate)
    /\ LET i == macc + MillisItem(frame_rate, mpos + 1)
       IN  /\ mpos' = mpos + 1
           /\ macc' = i
           /\ IF TailIncluded(i, duration)
              THEN AppendLabel(TailTime(duration, i))
              ELSE UNCHANGED <<pc, times, elapsed, raised>>
    /\ UNCHANGED <<config, isec, saved>>
    /\ UNCHANGED callVars

TailDone ==
    /\ pc = "tail"
    /\ frame_rate # 0
    /\ mpos >= MillisLen(frame_rate)
    /\ pc' = "draw"
    /\ UNCHANGED <<config, isec, mpos, macc, times, elapsed, saved, raised>>
    /\ UNCHANGED callVars

\* one pass of the loop over times: the image is created, drawn and saved
DrawSave ==
    /\ pc = "draw"
    /\ saved < Len(times)
    /\ saved' = saved + 1
    /\ UNCHANGED <<config, pc, isec, mpos, macc, times, elapsed, raised>>
    /\ UNCHANGED callVars

\* generate_frames returns to main
GenerateReturn ==
    /\ pc = "draw"
    /\ saved >= Len(times)
    /\ pc' = "encode"
    /\ UNCHANGED <<config, isec, mpos, macc, times, elapsed, saved, raised>>
    /\ UNCHANGED callVars

\* the rest of main: ffmpeg (which may or may not produce result.mp4), then
\* the reversing run or the copy (which raises when there is nothing to copy)
MainEncode ==
    /\ pc = "encode"
    /\ \E produced \in BOOLEAN, reverse \in BOOLEAN :
          IF ~produced /\ ~reverse
          THEN Raise("No such file or directory")
          ELSE pc' = "exit0" /\ UNCHANGED raised
    /\ UNCHANGED <<config, isec, mpos, macc, times, elapsed, saved>>
    /\ UNCHANGED callVars

Next ==
    \/ MainStart
    \/ MillisZeroDivision
    \/ FullLabel
    \/ FullNextSecond
    \/ FullDone
    \/ TailStep
    \/ TailDone
    \/ DrawSave
    \/ GenerateReturn
    \/ MainEncode

Spec == Init /\ [][Next]_vars

----------------------------------------------------------------------------
(* format_time and get_units_from_milliseconds as functions of their inputs *)

IdlePipe ==
    /\ pc = "idle"
    /\ duration = FloatZero
    /\ frame_rate = 1
    /\ time_format = <<>>
    /\ isec = 0
    /\ mpos = 0
    /\ macc = 0
    /\ times = <<>>
    /\ elapsed = <<>>
    /\ saved = 0
    /\ raised = "none"

GenericChars == {"%", "-", "0", "2", "U0663", "H", "m", " "}

GenericPatterns == UNION { [1..n -> GenericChars] : n \in 0..MaxPatLen }

\* written digits: ASCII and Arabic-Indic
WidthDigits == { DigitRows[r][d + 1] : r \in 1..2, d \in 0..MaxWidthDigit }

DigitStrings == [1..1 -> WidthDigits] \cup [1..2 -> WidthDigits]

\* one directive and nothing else: % [-] digits? unit
DirectivePatterns ==
    { <<"%">> \o sg \o ds \o <<u>> :
        sg \in {<<>>, <<"-">>}, ds \in DigitStrings, u \in Units }
    \cup { <<"%", u>> : u \in Units }

ExamplePatterns ==
    { <<"%", "H", ":", "%", "M", ":", "%", "S", ".", "%", "m">>,
      <<"%", "-", "2", "H", ":", "%", "M", ":", "%", "S">>,
      DefaultFormat,
      <<"%", "5", "%">>,
      <<"%", "5", "%", "H", "%">>,
      <<"%", "M", "%", "0", "0", "S">>,
      <<"%", "-", "%", "0", "H">>,
      <<"%", "%", "%", "0", "m", ":", "%", "S">>,
      <<"%", "%", "%", "%", "H", ":", "%", "%">>,
      <<"%", "-", "1", "U0663", "S">>,
      <<"%", "5", "U0663", "%">>,
      <<"%">> \o [k \in 1..20 |-> "9"] \o <<"X">>,
      <<"%", ".">> \o [k \in 1..20 |-> "9"] \o <<"X">>,
      <<"%">> \o SsizeMaxDigits \o <<"X">>,
      <<"%", ".", "0">> \o IntMaxDigits,
      <<"%">> \o [k \in 1..20 |-> "9"] \o <<"H">>,
      <<"%", "-">> \o [k \in 1..21 |-> "0"] \o <<"1", "S">>,
      <<"%">> \o [k \in 1..21 |-> "0"] \o <<"m">>,
      <<"%">> \o [k \in 1..20 |-> "9"] \o <<"H", "%", "0", "H">>,
      <<"%", "0", "H", "%">> \o [k \in 1..20 |-> "9"] \o <<"H">>,
      <<"%", "1">> \o [k \in 1..18 |-> "0"] \o <<"H">>,
      <<"%", "-">> \o SsizeMaxDigits \o <<"m">>,
      <<"%">> \o [k \in 1..(IntMaxStrDigits + 1) |-> "9"] \o <<"H">>,
      <<"%">> \o [k \in 1..(IntMaxStrDigits + 1) |-> "0"] \o <<"H">>,
      <<"%", "-">> \o [k \in 1..IntMaxStrDigits |-> "0"] \o <<"1", "S">>,
      <<"%", "-">> \o [k \in 1..(IntMaxStrDigits - 1) |-> "U0660"]
         \o <<"1", "S">> }

Patterns == GenericPatterns \cup DirectivePatterns \cup ExamplePatterns

\* 0, 5 ms, 999 ms, 5 s, 1 min 5 s, 59:59.999, 1 h 2 min 5 s 7 ms,
\* 12 h 34 min 56 s 789 ms, 123 h 51 min 5 s 123 ms
FormatTimes == {0, 5, 999, 5000, 65000, 3599999, 3725007, 45296789, 445865123}

InitFormat ==
    /\ fpc = "call"
    /\ millis \in FormatTimes
    /\ fmt \in Patterns
    /\ result = Ok(<<>>)
    /\ IdlePipe

\* format_time(millis, fmt)
FormatTime ==
    /\ fpc = "call"
    /\ fpc' = "returned"
    /\ \E mem \in MemoryLimits : result' = format_time(millis, fmt, mem)
    /\ UNCHANGED <<millis, fmt>>
    /\ UNCHANGED pipeVars

NextFormat == FormatTime

SpecFormat == InitFormat /\ [][NextFormat]_vars

NearBoundary(n) == (0..MaxUnitDelta) \cup ((n - 1 - MaxUnitDelta)..(n - 1))

UnitHours == (0..MaxUnitHours) \cup {23, 24, 99, 100, 500}

UnitTimes ==
    { ((h * 60 + mi) * 60 + sc) * 1000 + ml :
        h \in UnitHours, mi \in NearBoundary(60), sc \in NearBoundary(60),
        ml \in NearBoundary(1000) }

InitUnits ==
    /\ fpc = "call"
    /\ millis \in UnitTimes
    /\ fmt = <<>>
    /\ result = Ok(<<>>)
    /\ IdlePipe

\* get_units_from_milliseconds(millis)
GetUnits ==
    /\ fpc = "call"
    /\ fpc' = "returned"
    /\ result' = get_units_from_milliseconds(millis)
    /\ UNCHANGED <<millis, fmt>>
    /\ UNCHANGED pipeVars

NextUnits == GetUnits

SpecUnits == InitUnits /\ [][NextUnits]_vars

----------------------------------------------------------------------------
(* The grammar and the rendering rule as the specification states them *)

\* the position of the unit of a directive % [-]digits unit that starts at
\* position p of f, or 0 when none starts there
SpecDirectiveEnd(f, p) ==
    LET cands == { e \in (p + 1)..Len(f) :
                     /\ f[e] \in Units
                     /\ \/ e = p + 1
                        \/ /\ \A k \in (p + 2)..(e - 1) : IsDigit(f[k])
                           /\ \/ IsDigit(f[p + 1])
                              \/ f[p + 1] = "-" /\ e > p + 2 }
    IN  IF cands = {} THEN 0 ELSE CHOOSE e \in cands : TRUE

\* the written digits of the directive that starts at p and ends at e
SpecDigits(f, p, e) ==
    IF e > p + 1 /\ f[p + 1] = "-" THEN SubSeq(f, p + 2, e - 1)
    ELSE SubSeq(f, p + 1, e - 1)

\* the token starts of f scanned left to right from p: the positions of the
\* % signs that begin an escape, a directive or nothing ("stray")
RECURSIVE SpecTokens(_, _)
SpecTokens(f, p) ==
    IF p > Len(f) THEN {}
    ELSE IF f[p] # "%" THEN SpecTokens(f, p + 1)
    ELSE IF p < Len(f) /\ f[p + 1] = "%"
    THEN {<<p, "escape">>} \cup SpecTokens(f, p + 2)
    ELSE IF SpecDirectiveEnd(f, p) # 0
    THEN {<<p, "directive">>} \cup SpecTokens(f, SpecDirectiveEnd(f, p) + 1)
    ELSE {<<p, "stray">>} \cup SpecTokens(f, p + 1)

HasStrayPercent(f) == \E tk \in SpecTokens(f, 1) : tk[2] = "stray"

HasZeroWidthDirective(f) ==
    \E tk \in SpecTokens(f, 1) :
        /\ tk[2] = "directive"
        /\ LET ds == SpecDigits(f, tk[1], SpecDirectiveEnd(f, tk[1]))
           IN  ds # <<>> /\ \A k \in 1..Len(ds) : DigitVal(ds[k]) = 0

OnlyEscapes(f) == \A tk \in SpecTokens(f, 1) : tk[2] = "escape"

\* f with every %% pair replaced by one %
RECURSIVE Unescape(_)
Unescape(f) ==
    IF f = <<>> THEN <<>>
    ELSE IF f[1] = "%" /\ Len(f) >= 2 /\ f[2] = "%"
    THEN <<"%">> \o Unescape(SubSeq(f, 3, Len(f)))
    ELSE <<f[1]>> \o Unescape(Tail(f))

SpecDefaultSize(u) == IF u = "m" THEN 3 ELSE 2

\* the stored width of a pattern that is one directive
SpecWidth(f) ==
    LET u  == f[Len(f)]
        ds == SpecDigits(f, 1, Len(f))
    IN  IF ds = <<>> THEN (IF u = "m" THEN 3 ELSE -2)
        ELSE IF f[2] = "-" THEN IntOfDigits(ds)
        ELSE -IntOfDigits(ds)

\* the value of unit u at t milliseconds
UnitValue(t, u) ==
    CASE u = "m" -> t % 1000
      [] u = "S" -> (t \div 1000) % 60
      [] u = "M" -> (t \div 60000) % 60
      [] u = "H" -> t \div 3600000

\* f is one directive and nothing else
OneDirective(f) ==
    Len(f) >= 2 /\ f[1] = "%" /\ SpecDirectiveEnd(f, 1) = Len(f)

\* the integer written in the directive f is not zero
WrittenNonZero(f) ==
    LET ds == SpecDigits(f, 1, Len(f))
    IN  ds = <<>> \/ \E k \in 1..Len(ds) : DigitVal(ds[k]) # 0

\* the integer written in the directive f is at most 2^31 - 1
WrittenSmall(f) == ~Exceeds(SpecDigits(f, 1, Len(f)), IntMaxDigits)

\* what C6 says of the directive f, of stored width w, at millis
KeepsWidth(f, w) ==
    LET u == f[Len(f)]
        v == UnitValue(millis, u)
        n == Abs(w)
    IN  /\ result.err = "none"
        /\ Len(result.out) = n
        /\ w < 0 => result.out = LastN(Zeros(n) \o Str(v), n)
        /\ (w > 0 /\ (n >= 2 \/ u = "m")) =>
              result.out = FirstN(Rjust(Str(v), Max(n, SpecDefaultSize(u))), n)
        /\ w > 0 =>
              \E k \in 0..n : result.out = FirstN(Zeros(k) \o Str(v), n)

\* the rendering of value v under stored width w, padded to width pw
SpecRender(v, w, pw) ==
    LET padded == Rjust(Str(v), pw)
    IN  IF w < 0 THEN LastN(padded, -w) ELSE FirstN(padded, w)

Returned == fpc = "returned"

ValidInputs == ~duration.neg /\ frame_rate >= 1

ScheduleBuilt == pc \in {"draw", "encode", "exit0"}

\* the schedule of section 4.2 for the duration x, a real number >= 0 given
\* by its binary expansion, at fps frames per second; the products are exact
ExpectedSchedule(x, fps) ==
    LET fullSeconds == x.int
        fracMillis  == FracTimes(x.frac, 1000)
        step        == 1000 \div fps
        Below(o)    == \/ o < fracMillis.int
                       \/ /\ o = fracMillis.int
                          /\ \E k \in 1..Len(fracMillis.frac) :
                                fracMillis.frac[k] = 1
        nfull       == fullSeconds * fps
        ntail       == Cardinality({ j \in 0..(fps - 1) : Below(j * step) })
    IN  [ n \in 1..(nfull + ntail) |->
            IF n <= nfull
            THEN ((n - 1) \div fps) * 1000 + ((n - 1) % fps) * step
            ELSE (fullSeconds + 1) * 1000 + (n - nfull - 1) * step ]

----------------------------------------------------------------------------
(* Claims *)

\* C1: for duration >= 0 and fps >= 1 the elapsed times that generate_frames
\* labels are, in order, i*1000 + j*(1000 // fps) for every full second i and
\* j = 0..fps-1, then (fullSeconds+1)*1000 + j*(1000 // fps) for the j whose
\* offset is strictly below the fractional milliseconds; while the schedule is
\* being built the labelled times are a prefix of it; 2.5 s at 4 fps gives 10
\* entries and a whole number of seconds gives no tail entry.
C1_ScheduleExact ==
    ValidInputs =>
        LET exp == ExpectedSchedule(duration, frame_rate)
        IN  /\ Len(elapsed) <= Len(exp)
            /\ elapsed = SubSeq(exp, 1, Len(elapsed))
            /\ ScheduleBuilt =>
                  /\ elapsed = exp
                  /\ Len(times) = Len(exp)
                  /\ (duration = float(Dec(2500, 1000)) /\ frame_rate = 4) =>
                        Len(elapsed) = 10
                  /\ duration.frac = <<>> =>
                        Len(elapsed) = duration.int * frame_rate

\* What generate_frames does keep of C1: the schedule of the durations that
\* are a whole number of eighths of a second, on which its float expressions
\* are exact.
ScheduleExactOnEighths ==
    (ValidInputs /\ Len(duration.frac) <= 3) =>
        LET exp == ExpectedSchedule(duration, frame_rate)
        IN  /\ elapsed = SubSeq(exp, 1, Len(elapsed))
            /\ ScheduleBuilt => elapsed = exp

\* C2: a directive of unit U with non-zero stored width w renders the value
\* zero-padded to max(|w|, |defaultWidth(U)|) characters (2 for H, M, S and 3
\* for m), cut to its last |w| characters when w < 0 and to its first w
\* characters when w > 0.
C2_PadToDefaultSize ==
    (Returned /\ fmt \in DirectivePatterns /\ SpecWidth(fmt) # 0) =>
        LET u == fmt[Len(fmt)]
            w == SpecWidth(fmt)
        IN  result = Ok(SpecRender(UnitValue(millis, u), w,
                                   Max(Abs(w), SpecDefaultSize(u))))

\* C3: format_time fails whenever the pattern, scanned left to right, contains
\* a % that is neither part of a %% escape nor the start of a directive.
C3_StrayPercentFails ==
    (Returned /\ HasStrayPercent(fmt)) =>
        /\ result.err # "none"
        /\ result.out = <<>>

C3_Witness ==
    /\ Returned
    /\ fmt = <<"%", "5", "%", "H", "%">>
    /\ result = Err("not enough arguments for format string")

\* C4: a frame rate that is zero or negative, or a negative duration, is
\* rejected with an error before any schedule entry is produced: no label is
\* computed, no frame image is written and the run does not end normally.
C4_InvalidInputsRejected ==
    (frame_rate <= 0 \/ duration.neg) =>
        /\ times = <<>>
        /\ elapsed = <<>>
        /\ saved = 0
        /\ pc \notin {"draw", "encode", "exit0"}

\* C5: for duration >= 0 and fps >= 1 an invalid pattern (a zero-width
\* directive or a % that starts no escape and no directive) makes the pipeline
\* fail before any frame image is saved; generate_frames never returns
\* normally with it.
C5_BadPatternFailsFast ==
    (ValidInputs /\ (HasZeroWidthDirective(time_format)
                     \/ HasStrayPercent(time_format))) =>
        /\ saved = 0
        /\ pc \notin {"encode", "exit0"}

\* C6: the stored width depends on the pattern only: for every n >= 1, %nU
\* keeps the last n characters and %-nU the first n characters of the
\* zero-padded value, %U keeps the last 2 characters for H, M, S and the first
\* 3 for m, and %H:%M:%S.%m is the last two digits of the hours, two-digit
\* minutes, two-digit seconds and three-digit milliseconds.
C6_StoredWidth ==
    Returned =>
        /\ (OneDirective(fmt) /\ WrittenNonZero(fmt)) =>
              /\ result.err = "none"
              /\ WrittenSmall(fmt) => KeepsWidth(fmt, SpecWidth(fmt))
        /\ fmt = <<"%", "H", ":", "%", "M", ":", "%", "S", ".", "%", "m">> =>
              result = Ok(Rjust(Str(UnitValue(millis, "H") % 100), 2) \o <<":">>
                          \o Rjust(Str(UnitValue(millis, "M")), 2) \o <<":">>
                          \o Rjust(Str(UnitValue(millis, "S")), 2) \o <<".">>
                          \o Rjust(Str(UnitValue(millis, "m")), 3))

\* What format_time does keep of C6: the widths written with at most
\* IntMaxStrDigits digits and of at most 2^31 - 1 characters.
StoredWidthWithinLimits ==
    (/\ Returned /\ OneDirective(fmt) /\ WrittenNonZero(fmt)
     /\ WrittenSmall(fmt)
     /\ Len(SpecDigits(fmt, 1, Len(fmt))) <= IntMaxStrDigits) =>
        KeepsWidth(fmt, SpecWidth(fmt))

\* C7: a pattern that contains a directive whose written digits parse to zero
\* makes format_time fail with "width cannot be 0", whatever else it contains.
C7_ZeroWidthFails ==
    (Returned /\ HasZeroWidthDirective(fmt)) => result = Err("width cannot be 0")

\* C8: for t >= 0 get_units_from_milliseconds(t) is (H, M, S, m) with
\* 0 <= M <= 59, 0 <= S <= 59, 0 <= m <= 999, H >= 0 and
\* ((H*60+M)*60+S)*1000+m = t.
C8_UnitsRoundTrip ==
    Returned =>
        /\ result.H >= 0
        /\ result.M \in 0..59
        /\ result.S \in 0..59
        /\ result.m \in 0..999
        /\ ((result.H * 60 + result.M) * 60 + result.S) * 1000 + result.m = millis

C8_Witness ==
    /\ Returned
    /\ millis = 360000000 + 59 * 60000 + 59 * 1000 + 999
    /\ result = [H |-> 100, M |-> 59, S |-> 59, m |-> 999]

\* C9: a pattern whose % signs all occur in %% pairs renders as the pattern
\* with every %% replaced by one %, whatever the elapsed time; %% gives %.
C9_EscapeOnly ==
    (Returned /\ OnlyEscapes(fmt)) => result = Ok(Unescape(fmt))

C9_Witness ==
    /\ Returned
    /\ fmt = <<"%", "%", "H">>
    /\ result = Ok(<<"%", "H">>)

\* C10: for duration >= 0 and fps >= 1 the labelled elapsed times never
\* decrease in frame order, and every sub-frame offset is below 1000.
C10_Monotonic ==
    ValidInputs =>
        /\ \A k \in 1..(Len(elapsed) - 1) : elapsed[k] <= elapsed[k + 1]
        /\ macc < 1000

C10_Witness ==
    /\ frame_rate = 1001 /\ duration = float(Dec(1125, 1000)) /\ pc = "tail"
    /\ Len(elapsed) = 1002
    /\ elapsed[1001] = 0 /\ elapsed[1002] = 2000

====
